---- MODULE Spec2Model ----
(***************************************************************************)
(* Model of the stream supervision core of smart-converter:               *)
(*   - the path reconciler, in its two implementations                    *)
(*       web/stream_monitor.py  StreamMonitor (asyncio, used by main.py)   *)
(*       stream_monitor.py      StreamMonitor (threads, used by            *)
(*                              web/main.py and MediaMTXManager)           *)
(*   - the FFmpeg process registry of web/api.py with its start, stop and *)
(*     shutdown paths.                                                     *)
(***************************************************************************)
EXTENDS Integers, Sequences, FiniteSets, TLC

(***************************************************************************)
(* Bounds of the model.                                                    *)
(***************************************************************************)
\* number of polls a behaviour may hold (the clock advances once per poll)
MaxTime == 3
\* events that may wait undrained in the queue when a poll begins
MaxBacklog == 0
\* requests and start-up tasks of web/api.py a behaviour may hold
MaxTasks == 2
\* telemetry ticks a behaviour may hold
MaxTicks == 3
\* StreamMonitor.max_history_size: 1000 in the source; the trimming is the same
\* at every size and is checked here at a small one
max_history_size == 2
\* lines with "frame=" the output-monitor task of a session may take from
\* its stderr queue
MaxFrames == 2

Paths == {"drone-1", "drone-2"}
\* the order in which the relay lists its paths
PathOrder == <<"drone-1", "drone-2">>
\* lengths of the "publishers" and "readers" lists the relay reports
PublisherCounts == {0, 1}
ReaderCounts == {0, 1}

\* start_time = None
NoTime == 0

VARIABLES
    monitor,          \* which StreamMonitor class the process runs: "web" or "legacy"
    clock,            \* datetime.now(), advanced once per poll
    drones,           \* telemetry_simulator.drones (its keys)
    _active_streams,  \* web StreamMonitor._active_streams
    _stream_events,   \* web StreamMonitor._stream_events
    fetch,            \* web: the running _fetch_streams_status call
    streams,          \* legacy StreamMonitor.streams
    event_queue,      \* legacy StreamMonitor.event_queue
    lastPoll,         \* history: what the last completed poll saw and emitted
    lastDrain,        \* history: what the last request for the events was answered
    lastAdd,          \* history: how the last add_drone call ended
    observed,         \* history: the status of each path when a poll last
                      \* observed it without an error
    lastEvent,        \* history: for each path, the type of the latest started
                      \* or ended event that a poll has emitted for it
    loops,            \* the periodic loops of the monitor in use. _is_running:
                      \* web StreamMonitor._is_running; legacy: _stop_event (of
                      \* the monitor and of the simulator) is not set. polling:
                      \* the legacy monitor thread is inside _update_streams
                      \* (recorded from the moment stop_monitoring is called)
    sim,              \* telemetry_simulator.drones: the values of the drones that
                      \* a tick has read (a seed is drawn when it is first read)
    telemetry_data,   \* StreamMonitor.telemetry_data
    telemetry_history,\* StreamMonitor.telemetry_history
    produced,         \* history: every sample appended to a path's history
    ticks,            \* number of telemetry ticks so far
    lastTick,         \* history: what the last tick did
    restored,         \* history: the drones whose values were loaded from the
                      \* database since their last tick
    positions,        \* the table of PositionDB: the newest row of each drone_id
    event_loop,       \* the asyncio event loop of the process: "free", or
                      \* "blocked" while a coroutine is inside a blocking call
    simulation,       \* drone_telemetry.py: where the thread of _simulation_loop
                      \* is, and the size of the dict its for loop iterates
    ffmpeg_processes, \* web/api.py: the registry, stream_key -> process
    process,          \* the FFmpeg child processes, named by the task that spawned them
    signals,          \* the signals sent to each process
    monitor_tasks,    \* web/api.py: the output-monitor task of each process and
                      \* what the session of the process has told its client
    tasks,            \* the request handlers and start-up tasks of web/api.py
    server            \* "up", or how shutdown_event ended

monitorVars == <<monitor, clock, drones, _active_streams, _stream_events, fetch,
                 streams, event_queue, lastPoll, lastDrain, lastAdd, observed,
                 loops, lastEvent>>

supervisorVars == <<ffmpeg_processes, process, signals, tasks, server, monitor_tasks>>

telemetryVars == <<sim, telemetry_data, telemetry_history, produced, ticks, lastTick,
                   restored, simulation, event_loop, positions>>

vars == <<monitorVars, supervisorVars, telemetryVars>>

EmptyMap == [p \in {} |-> NoTime]

(***************************************************************************)
(* What the media relay answers about one path.                            *)
(*   kind   "absent": not in /v3/paths/list                                *)
(*          "error" : listed, but /v3/paths/get/<path> fails               *)
(*          "ok"    : listed and described                                  *)
(*   source "obj": a source object, "null": JSON null, "missing": no key   *)
(***************************************************************************)
Absent == [kind |-> "absent", state |-> "notReady", source |-> "missing",
           publishers |-> 0, readers |-> 0]
DetailFailed == [kind |-> "error", state |-> "notReady", source |-> "missing",
                 publishers |-> 0, readers |-> 0]
NullSource == [kind |-> "ok", state |-> "ready", source |-> "null",
               publishers |-> 0, readers |-> 0]
\* the relay attaches readers only to a ready path that has a source, and
\* reports publishers only for a path that has a source
PathInfos ==
    {info \in [kind : {"ok"}, state : {"ready", "notReady"}, source : {"obj", "missing"},
               publishers : PublisherCounts, readers : ReaderCounts] :
        /\ info.readers > 0 => (info.state = "ready" /\ info.source = "obj")
        /\ info.publishers > 0 => info.source = "obj"}
DetailResponses == PathInfos \cup {NullSource, DetailFailed}

NoSnapshot == [p \in Paths |-> Absent]
NoPoll == [seq |-> 0, outcome |-> "none", snap |-> NoSnapshot, emitted |-> <<>>,
           repeat |-> FALSE]

Event(type, path) == [type |-> type, path |-> path]

\* a coroutine takes a step only when the event loop's thread is not inside a
\* blocking call of another coroutine
EventLoopFree == event_loop = "free"

NoDrain == [flip |-> FALSE, events |-> <<>>]

NoAdd == [flip |-> FALSE, drone_id |-> "", raised |-> "none"]

\* faulty variant: only the latest event is handed out
DrainedLatest(queue) == IF queue = <<>> THEN <<>> ELSE <<queue[Len(queue)]>>

\* get_stream_events: the list that is returned (web line 226, legacy 109-112)
Drained(queue) == queue

(***************************************************************************)
(* web/stream_monitor.py: _fetch_streams_status, one path of the loop.     *)
(***************************************************************************)
\* source_info.get("type", ...) on a JSON null raises AttributeError; a failed
\* detail request raises too: both are caught at line 186 and the path is skipped
DetailRaises(info) == info.kind = "error" \/ info.source = "null"

DetailStatus(info) ==
    IF info.state = "ready" /\ info.source = "obj" THEN "active" ELSE "inactive"

\* faulty variant: the start time is taken anew at every poll that sees the path active
StartTimeEveryPoll(path, status, old, now) ==
    IF status = "active" THEN now
    ELSE IF path \in DOMAIN old THEN old[path].start_time
    ELSE NoTime

StartTime(path, status, old, now) ==
    IF status = "active" /\ path \notin DOMAIN old THEN now
    ELSE IF path \in DOMAIN old THEN old[path].start_time
    ELSE NoTime

MonitoredStream(path, info, old, now) ==
    [path |-> path,
     source_type |-> IF info.source = "obj" THEN "rtmpConn" ELSE "unknown",
     publishers |-> info.publishers,
     readers |-> info.readers,
     status |-> DetailStatus(info),
     start_time |-> StartTime(path, DetailStatus(info), old, now),
     last_seen |-> now]

\* faulty variant: a path that was not in the map yet gets no event
StreamEventsKnownPaths(path, status, old) ==
    IF status = "active" /\ path \in DOMAIN old /\ old[path].status # "active"
    THEN <<Event("stream_started", path)>>
    ELSE IF status = "inactive" /\ path \in DOMAIN old /\ old[path].status = "active"
    THEN <<Event("stream_ended", path)>>
    ELSE <<>>

StreamEvents(path, status, old) ==
    IF status = "active" /\ (path \notin DOMAIN old \/ old[path].status # "active")
    THEN <<Event("stream_started", path)>>
    ELSE IF status = "inactive" /\ path \in DOMAIN old /\ old[path].status = "active"
    THEN <<Event("stream_ended", path)>>
    ELSE <<>>

Put(map, key, value) ==
    [k \in DOMAIN map \cup {key} |-> IF k = key THEN value ELSE map[k]]

\* history: the latest started or ended event of each path after the events
\* of a poll, which holds at most one event for a path
Noted(last, events) ==
    LET of(type) == {events[i].path : i \in {j \in 1..Len(events) :
                                                 events[j].type = type}}
        started == of("stream_started")
        ended == of("stream_ended")
    IN  IF started \cup ended = {} THEN last
        ELSE [p \in DOMAIN last \cup started \cup ended |->
                 IF p \in started THEN "stream_started"
                 ELSE IF p \in ended THEN "stream_ended"
                 ELSE last[p]]

Listed(S) == SelectSeq(PathOrder, LAMBDA p : p \in S)

\* history: the record of a poll that completes; repeat says that the relay
\* answered it exactly as it answered the poll before
Completed(seq, outcome, snap, emitted) ==
    [seq |-> seq, outcome |-> outcome, snap |-> snap, emitted |-> emitted,
     repeat |-> lastPoll.seq > 0 /\ lastPoll.outcome = outcome /\ lastPoll.snap = snap]

\* both loops run: the state after start() (web, lines 42-52) or after
\* __init__ and start_monitoring (legacy, lines 36-40)
Started == [_is_running |-> TRUE, polling |-> FALSE]

\* legacy _monitor_loop, lines 47-49: the thread has passed the test of
\* _stop_event and is in, or about to call, _update_streams
InMonitorLoop == loops._is_running \/ loops.polling

Idle == [pc |-> "idle", items |-> <<>>, i |-> 0, new_active_streams |-> EmptyMap,
         snap |-> NoSnapshot, emitted |-> <<>>]

(***************************************************************************)
(* web: the list request answers. With no item the loop body never runs    *)
(* and line 195 installs the empty map at once.                            *)
(***************************************************************************)
FetchList(S) ==
    /\ EventLoopFree
    /\ monitor = "web"
    /\ loops._is_running
    /\ fetch.pc = "idle"
    /\ clock < MaxTime
    /\ Len(_stream_events) <= MaxBacklog
    /\ clock' = clock + 1
    /\ IF S = {}
       THEN /\ _active_streams' = EmptyMap
            /\ fetch' = Idle
            /\ lastPoll' = Completed(clock + 1, "ok", NoSnapshot, <<>>)
       ELSE /\ fetch' = [Idle EXCEPT !.pc = "detail", !.items = Listed(S), !.i = 1]
            /\ UNCHANGED <<_active_streams, lastPoll>>
    /\ UNCHANGED <<monitor, drones, _stream_events, streams, event_queue>>
    /\ UNCHANGED <<lastDrain, lastAdd, observed, loops, lastEvent>>
    /\ UNCHANGED supervisorVars
    /\ UNCHANGED telemetryVars

(***************************************************************************)
(* web: the list request fails (httpx.RequestError, line 198) or answers   *)
(* with an error status or a body that is not JSON (line 201).             *)
(***************************************************************************)
FetchListFails(outcome) ==
    /\ EventLoopFree
    /\ monitor = "web"
    /\ loops._is_running
    /\ fetch.pc = "idle"
    /\ clock < MaxTime
    /\ Len(_stream_events) <= MaxBacklog
    /\ clock' = clock + 1
    /\ _active_streams' = EmptyMap
    /\ lastPoll' = Completed(clock + 1, outcome, NoSnapshot, <<>>)
    /\ UNCHANGED <<monitor, drones, _stream_events, fetch, streams, event_queue>>
    /\ UNCHANGED <<lastDrain, lastAdd, observed, loops, lastEvent>>
    /\ UNCHANGED supervisorVars
    /\ UNCHANGED telemetryVars

(***************************************************************************)
(* web: the detail request of the next listed path answers; the path is    *)
(* processed (lines 141-184) and, after the last one, line 195 replaces    *)
(* the map.                                                                *)
(***************************************************************************)
FetchDetail(info) ==
    /\ EventLoopFree
    /\ monitor = "web"
    /\ fetch.pc = "detail"
    /\ LET path == fetch.items[fetch.i]
           stream == MonitoredStream(path, info, _active_streams, clock)
           events == IF DetailRaises(info) THEN <<>>
                     ELSE StreamEvents(path, stream.status, _active_streams)
           new == IF DetailRaises(info) THEN fetch.new_active_streams
                  ELSE Put(fetch.new_active_streams, path, stream)
           snap == [fetch.snap EXCEPT ![path] = info]
           last == fetch.i = Len(fetch.items)
       IN  /\ _stream_events' = _stream_events \o events
           /\ drones' = IF DetailRaises(info) THEN drones ELSE drones \cup {path}
           /\ IF last
              THEN /\ _active_streams' = new
                   /\ fetch' = Idle
                   /\ lastPoll' = Completed(clock, "ok", snap, fetch.emitted \o events)
              ELSE /\ fetch' = [fetch EXCEPT !.i = @ + 1, !.new_active_streams = new,
                                             !.snap = snap, !.emitted = @ \o events]
                   /\ UNCHANGED <<_active_streams, lastPoll>>
           /\ observed' = IF DetailRaises(info) THEN observed
                          ELSE Put(observed, path, stream.status)
           /\ lastEvent' = Noted(lastEvent, events)
    /\ UNCHANGED <<monitor, clock, streams, event_queue>>
    /\ UNCHANGED <<lastDrain, lastAdd, loops>>
    /\ UNCHANGED supervisorVars
    /\ UNCHANGED telemetryVars

(***************************************************************************)
(* web: get_stream_events returns the queue and clears it.                 *)
(***************************************************************************)
GetStreamEvents ==
    /\ EventLoopFree
    /\ monitor = "web"
    /\ _stream_events # <<>>
    /\ _stream_events' = <<>>
    /\ UNCHANGED <<lastDrain, lastAdd, observed, loops, lastEvent>>
    /\ UNCHANGED <<monitor, clock, drones, _active_streams, fetch, streams,
                   event_queue, lastPoll>>
    /\ UNCHANGED supervisorVars
    /\ UNCHANGED telemetryVars


(***************************************************************************)
(* stream_monitor.py (legacy, threaded): _update_streams.                  *)
(* The list items carry "source" and "readers"; "state" and "publishers"   *)
(* are never read. An item whose "readers" is JSON null (kind "error")     *)
(* makes len() raise TypeError, which ends the loop at line 101.           *)
(***************************************************************************)
LegacyItems ==
    {[kind |-> k, state |-> IF src = "obj" THEN "ready" ELSE "notReady",
      source |-> src, publishers |-> 0, readers |-> r] :
        k \in {"ok"}, src \in {"obj", "null", "missing"}, r \in {0}}
    \cup {[kind |-> "ok", state |-> "ready", source |-> "obj", publishers |-> 0,
           readers |-> r] : r \in ReaderCounts}
    \cup {[kind |-> "error", state |-> IF src = "obj" THEN "ready" ELSE "notReady",
           source |-> src, publishers |-> 0, readers |-> 0] : src \in {"obj", "missing"}}

LegacySnapshots == [Paths -> LegacyItems \cup {Absent}]

\* publishers=1 if source else 0
Publishers(item) == IF item.source = "obj" THEN 1 ELSE 0

StreamInfo(path, item, now) ==
    [path |-> path,
     source_type |-> IF item.source = "obj" THEN "rtmpConn" ELSE "unknown",
     publishers |-> Publishers(item),
     readers |-> item.readers,
     status |-> "active",
     start_time |-> now,
     last_seen |-> now]

PublisherEvents(path, old_publishers, publishers) ==
    IF old_publishers > 0 /\ publishers = 0 THEN <<Event("stream_ended", path)>>
    ELSE IF old_publishers = 0 /\ publishers > 0 THEN <<Event("stream_restarted", path)>>
    ELSE <<>>

\* one iteration of the loop at line 66 on the state st = [streams, events,
\* drones, raised]
UpdateStream(st, path, item, now) ==
    IF st.raised \/ item.kind = "absent" THEN st
    ELSE IF path \notin DOMAIN st.streams
    THEN IF item.kind = "error" THEN [st EXCEPT !.raised = TRUE]
         ELSE [st EXCEPT !.streams = Put(@, path, StreamInfo(path, item, now)),
                         !.drones = @ \cup {path},
                         !.events = @ \o <<Event("stream_started", path)>>]
    ELSE IF item.kind = "error"
    THEN [st EXCEPT !.streams[path].publishers = Publishers(item), !.raised = TRUE]
    ELSE [st EXCEPT !.streams[path].publishers = Publishers(item),
                    !.streams[path].readers = item.readers,
                    !.streams[path].last_seen = now,
                    !.events = @ \o PublisherEvents(path, st.streams[path].publishers,
                                                    Publishers(item))]

\* the paths whose iteration of the loop at line 66 runs to its end: the ones
\* listed at or before which no item has raised
LegacyObserved(items) ==
    {p \in Paths :
        /\ items[p].kind = "ok"
        /\ \A i, j \in 1..Len(PathOrder) :
              PathOrder[j] = p /\ items[PathOrder[i]].kind = "error" => j < i}

\* the threaded monitor keeps no status of its own for a polled path: a path
\* is published when its publishers count is positive (lines 96-99)
PublisherStatus(publishers) == IF publishers > 0 THEN "active" ELSE "inactive"

RECURSIVE UpdateLoop(_, _, _, _)
UpdateLoop(st, items, i, now) ==
    IF i > Len(PathOrder) THEN st
    ELSE UpdateLoop(UpdateStream(st, PathOrder[i], items[PathOrder[i]], now),
                    items, i + 1, now)

(***************************************************************************)
(* legacy: one call of _update_streams whose list request answers 200 with *)
(* a well-formed body.                                                     *)
(***************************************************************************)
UpdateStreams(items) ==
    /\ monitor = "legacy"
    /\ InMonitorLoop
    /\ clock < MaxTime
    /\ Len(event_queue) <= MaxBacklog
    /\ clock' = clock + 1
    /\ LET st == UpdateLoop([streams |-> streams, events |-> <<>>, drones |-> drones,
                             raised |-> FALSE], items, 1, clock + 1)
       IN  /\ streams' = st.streams
           /\ drones' = st.drones
           /\ event_queue' = event_queue \o st.events
           /\ lastPoll' = Completed(clock + 1, IF st.raised THEN "aborted" ELSE "ok",
                                    items, st.events)
           /\ lastEvent' = Noted(lastEvent, st.events)
           /\ observed' = [p \in DOMAIN observed \cup LegacyObserved(items) |->
                             IF p \in LegacyObserved(items)
                             THEN PublisherStatus(Publishers(items[p]))
                             ELSE observed[p]]
    /\ loops' = [loops EXCEPT !.polling = FALSE]
    /\ UNCHANGED <<monitor, _active_streams, _stream_events, fetch>>
    /\ UNCHANGED <<lastDrain, lastAdd>>
    /\ UNCHANGED supervisorVars
    /\ UNCHANGED telemetryVars

(***************************************************************************)
(* legacy: requests.get raises (transport_error), or the answer is not 200 *)
(* or has no "items" (error): logged, nothing else happens.                *)
(***************************************************************************)
UpdateStreamsFails(outcome) ==
    /\ monitor = "legacy"
    /\ InMonitorLoop
    /\ clock < MaxTime
    /\ Len(event_queue) <= MaxBacklog
    /\ clock' = clock + 1
    /\ lastPoll' = Completed(clock + 1, outcome, NoSnapshot, <<>>)
    /\ loops' = [loops EXCEPT !.polling = FALSE]
    /\ UNCHANGED <<monitor, drones, _active_streams, _stream_events, fetch, streams,
                   event_queue>>
    /\ UNCHANGED <<lastDrain, lastAdd, observed, lastEvent>>
    /\ UNCHANGED supervisorVars
    /\ UNCHANGED telemetryVars

(***************************************************************************)
(* legacy: get_stream_events empties the queue.                            *)
(***************************************************************************)
LegacyGetStreamEvents ==
    /\ monitor = "legacy"
    /\ event_queue # <<>>
    /\ event_queue' = <<>>
    /\ UNCHANGED <<lastDrain, lastAdd, observed, loops, lastEvent>>
    /\ UNCHANGED <<monitor, clock, drones, _active_streams, _stream_events, fetch,
                   streams, lastPoll>>
    /\ UNCHANGED supervisorVars
    /\ UNCHANGED telemetryVars

\* the event queue of the monitor in use
StreamEventQueue == IF monitor = "web" THEN _stream_events ELSE event_queue

(***************************************************************************)
(* web/api.py, get_events (lines 468-484): the endpoint answers with what  *)
(* get_stream_events of the monitor in use returns, which empties the      *)
(* queue. The handler runs without a suspension point.                     *)
(***************************************************************************)
GetEvents ==
    /\ EventLoopFree
    /\ lastDrain' = [flip |-> ~lastDrain.flip, events |-> Drained(StreamEventQueue)]
    /\ _stream_events' = IF monitor = "web" THEN <<>> ELSE _stream_events
    /\ event_queue' = IF monitor = "legacy" THEN <<>> ELSE event_queue
    /\ UNCHANGED <<monitor, clock, drones, _active_streams, fetch, streams, lastPoll,
                   lastAdd, observed, loops, lastEvent>>
    /\ UNCHANGED supervisorVars
    /\ UNCHANGED telemetryVars

\* get_active_streams of the monitor in use, keyed by path
ActiveStreams == IF monitor = "web" THEN _active_streams ELSE streams


(***************************************************************************)
(* web/api.py: the FFmpeg registry ffmpeg_processes and the code that      *)
(* writes it: websocket_endpoint (a session starts a process, waits for it *)
(* and cleans up), _start_ffmpeg_publication_process (start-up tasks),     *)
(* the end of delete_stream (stop) and main.py's shutdown_event.           *)
(* Each task runs one request; a process is named by the task that         *)
(* spawned it. Steps are the stretches of code between two awaits.         *)
(***************************************************************************)
Tasks == 1..MaxTasks
NoProcess == 0
SourceSpecs == {"file", "missing_file", "camera"}

NoTask == [kind |-> "none", key |-> "", source |-> "", pc |-> "idle",
           popped |-> NoProcess,
           result |-> "none", stopped |-> FALSE,
           unregistered |-> FALSE, rivals |-> {}, restarted |-> FALSE]

Running(p) == p # NoProcess /\ process[p] = "running"

Remove(map, key) == [k \in DOMAIN map \ {key} |-> map[k]]

\* the registered process a stop of key acts on (lines 341-342, 842-849)
StopTarget(key) ==
    IF key \in DOMAIN ffmpeg_processes THEN ffmpeg_processes[key] ELSE NoProcess

\* faulty variant: the file is not looked for before FFmpeg is started
SourceAcceptedUnchecked(kind, source) ==
    IF kind = "ws" THEN source \in {"file", "missing_file"}
    ELSE source \in {"file", "missing_file", "camera"}

\* websocket_endpoint takes only files (line 689); the start-up path also
\* cameras and screens; a file must exist under uploads/
SourceAccepted(kind, source) ==
    IF kind = "ws" THEN source = "file" ELSE source \in {"file", "camera"}

\* faulty variant: stopping a stream that has no process is answered with an error
DeleteResultNotFound(target) == IF target = NoProcess THEN "error" ELSE "ok"

\* delete_stream logs whatever the stop raises and answers with its message (355)
DeleteResult(target) == "ok"

\* the output-monitor task of a process: monitor_ffmpeg_output (lines 734-800)
\* of a session, monitor_output (lines 1069-1082) of a start-up publication.
\* is_active_sent is the flag of line 735; final_sent says that the session has
\* told its client "completed" or "error" (lines 808-814). History: frames
\* counts the stderr lines with "frame=" the task has taken from its queue,
\* active_reports the "active" messages the client got.
NoMonitorTask == [task |-> "none", is_active_sent |-> FALSE, final_sent |-> FALSE,
                  frames |-> 0, active_reports |-> 0]

\* what a line of FFmpeg's stderr may be: a progress line with "frame=", or
\* any other non-empty line
StderrLines == {"frame=", "other"}

\* faulty variant: the flag is not looked at
IsFirstMatchUnflagged(line, is_active_sent) == line = "frame="

\* line 758: "frame=" in line and not is_active_sent
IsFirstMatch(line, is_active_sent) == line = "frame=" /\ ~is_active_sent

\* lines 831-836: monitor_task.cancel() and the gather that awaits it
Cancelled(task) == IF task = "running" THEN "done" ELSE task

\* tasks are named in the order in which their requests arrive
NextTask(t) == tasks[t].kind = "none" /\ \A u \in Tasks : u < t => tasks[u].kind # "none"

\* history: the start tasks of the same key that are between call and registration
Starters(key) == {u \in Tasks : tasks[u].pc = "spawning" /\ tasks[u].key = key}

(***************************************************************************)
(* A start is called: websocket_endpoint up to line 714, or                *)
(* _start_ffmpeg_publication_process up to line 1060. A source that is not *)
(* accepted ends the call; otherwise asyncio.create_subprocess_exec is     *)
(* awaited. Neither looks at the registry. A session first adds its key to *)
(* the simulator (line 644), which the legacy simulator seeds anew.        *)
(***************************************************************************)
StartBegin(t, kind, key, source) ==
    /\ EventLoopFree
    /\ server = "up"
    /\ NextTask(t)
    /\ tasks' = [tasks EXCEPT ![t] =
          IF SourceAccepted(kind, source)
          THEN [NoTask EXCEPT !.kind = kind, !.key = key, !.source = source,
                              !.pc = "spawning",
                              !.unregistered = key \notin DOMAIN ffmpeg_processes,
                              !.rivals = Starters(key)]
          ELSE [NoTask EXCEPT !.kind = kind, !.key = key, !.source = source,
                              !.pc = "done", !.result = "error"]]
    /\ drones' = IF kind = "ws" THEN drones \cup {key} ELSE drones
    /\ UNCHANGED <<ffmpeg_processes, process, signals, server, monitor_tasks>>
    /\ sim' = IF kind = "ws" /\ monitor = "legacy" THEN Remove(sim, key) ELSE sim
    /\ UNCHANGED <<monitor, clock, _active_streams, _stream_events, fetch, streams,
                   event_queue, lastPoll>>
    /\ UNCHANGED <<lastDrain, lastAdd, observed, loops, lastEvent>>
    /\ UNCHANGED <<telemetry_data, telemetry_history, produced, ticks, lastTick,
                   restored, simulation, event_loop, positions>>

(***************************************************************************)
(* create_subprocess_exec returns and the process is stored under its key  *)
(* (lines 721, 1066), whatever is there; or it raises and the call ends.   *)
(***************************************************************************)
StartSpawned(t, spawned) ==
    /\ EventLoopFree
    /\ server = "up"
    /\ tasks[t].pc = "spawning"
    /\ IF spawned
       THEN /\ process' = [process EXCEPT ![t] = "running"]
            /\ ffmpeg_processes' = Put(ffmpeg_processes, tasks[t].key, t)
            /\ tasks' = [u \in Tasks |->
                  IF u = t
                  THEN IF tasks[t].kind = "ws"
                       THEN [tasks[t] EXCEPT !.pc = "pending", !.result = "ok"]
                       ELSE [tasks[t] EXCEPT !.pc = "done", !.result = "ok"]
                  ELSE IF tasks[u].key = tasks[t].key /\ tasks[u].popped # NoProcess
                       THEN [tasks[u] EXCEPT !.restarted = TRUE]
                       ELSE tasks[u]]
            /\ monitor_tasks' =
                  IF tasks[t].kind = "ws" THEN monitor_tasks
                  ELSE [monitor_tasks EXCEPT ![t].task = "running"]
       ELSE /\ tasks' = [tasks EXCEPT ![t].pc = "done", ![t].result = "error"]
            /\ UNCHANGED <<ffmpeg_processes, process, monitor_tasks>>
    /\ UNCHANGED <<signals, server>>
    /\ UNCHANGED monitorVars
    /\ UNCHANGED telemetryVars

(***************************************************************************)
(* websocket_endpoint, line 723: the "pending" status is sent. When the    *)
(* send raises, the handler leaves through line 729 to the finally block   *)
(* with its process running; otherwise it awaits the process (line 805).   *)
(***************************************************************************)
SendPending(t, delivered) ==
    /\ EventLoopFree
    /\ server = "up"
    /\ tasks[t].pc = "pending"
    /\ tasks' = [tasks EXCEPT ![t].pc = IF delivered THEN "waiting" ELSE "cleanup"]
    /\ monitor_tasks' = IF delivered THEN [monitor_tasks EXCEPT ![t].task = "running"]
                        ELSE monitor_tasks
    /\ UNCHANGED <<ffmpeg_processes, process, signals, server>>
    /\ UNCHANGED monitorVars
    /\ UNCHANGED telemetryVars

\* websocket_endpoint, lines 805-814: ffmpeg_process.wait() returns and the
\* client is told "completed" or "error"
WaitReturns(t) ==
    /\ EventLoopFree
    /\ server = "up"
    /\ tasks[t].pc = "waiting"
    /\ process[t] = "exited"
    /\ tasks' = [tasks EXCEPT ![t].pc = "cleanup"]
    /\ monitor_tasks' = [monitor_tasks EXCEPT ![t].final_sent = TRUE]
    /\ UNCHANGED <<ffmpeg_processes, process, signals, server>>
    /\ UNCHANGED monitorVars
    /\ UNCHANGED telemetryVars

(***************************************************************************)
(* websocket_endpoint, lines 830-838 and 842-866 (the finally block). The  *)
(* session's monitor task is cancelled and awaited. With an entry          *)
(* under its key: if the session's own process runs, the entry is removed  *)
(* and the process found there is terminated and awaited (terminate()      *)
(* raises ProcessLookupError for one that has exited: logged); if its own  *)
(* process has exited, the entry is just removed.                          *)
(***************************************************************************)
Cleanup(t) ==
    /\ EventLoopFree
    /\ server = "up"
    /\ tasks[t].pc = "cleanup"
    /\ LET key == tasks[t].key
           target == StopTarget(key)
       IN  IF target = NoProcess
           THEN /\ tasks' = [tasks EXCEPT ![t].pc = "done", ![t].stopped = TRUE]
                /\ UNCHANGED <<ffmpeg_processes, signals>>
           ELSE /\ ffmpeg_processes' = Remove(ffmpeg_processes, key)
                /\ IF Running(t) /\ Running(target)
                   THEN /\ signals' = [signals EXCEPT ![target] = @ \cup {"terminate"}]
                        /\ tasks' = [tasks EXCEPT ![t].pc = "term_wait",
                                                  ![t].popped = target,
                                                  ![t].stopped = TRUE]
                   ELSE /\ tasks' = [tasks EXCEPT ![t].pc = "done",
                                                  ![t].popped = target,
                                                  ![t].stopped = TRUE]
                        /\ UNCHANGED signals
    /\ monitor_tasks' = [monitor_tasks EXCEPT ![t].task = Cancelled(@)]
    /\ UNCHANGED <<process, server>>
    /\ UNCHANGED monitorVars
    /\ UNCHANGED telemetryVars

(***************************************************************************)
(* delete_stream. deleted says whether the relay and the database parts      *)
(* (lines 262-327) went through; if not the request ends with an           *)
(* HTTPException before the stop. Lines 329-337 drop the path's telemetry   *)
(* caches. The stop, lines 339-353: with an entry                          *)
(* under the key, it is removed and, if the process runs, terminated and   *)
(* awaited.                                                                *)
(***************************************************************************)
DeleteStream(t, key, deleted) ==
    /\ EventLoopFree
    /\ server = "up"
    /\ NextTask(t)
    /\ LET target == StopTarget(key)
           call == [NoTask EXCEPT !.kind = "delete", !.key = key]
       IN  IF ~deleted
           THEN /\ tasks' = [tasks EXCEPT ![t] =
                                [call EXCEPT !.pc = "done", !.result = "error"]]
                /\ UNCHANGED <<ffmpeg_processes, signals>>
           ELSE /\ ffmpeg_processes' = Remove(ffmpeg_processes, key)
                /\ IF Running(target)
                   THEN /\ signals' = [signals EXCEPT ![target] = @ \cup {"terminate"}]
                        /\ tasks' = [tasks EXCEPT ![t] =
                              [call EXCEPT !.pc = "term_wait", !.popped = target,
                                           !.stopped = TRUE]]
                   ELSE /\ tasks' = [tasks EXCEPT ![t] =
                              [call EXCEPT !.pc = "done", !.popped = target,
                                           !.stopped = TRUE,
                                           !.result = DeleteResult(target)]]
                        /\ UNCHANGED signals
    /\ UNCHANGED <<process, server, monitor_tasks>>
    /\ UNCHANGED monitorVars
    /\ telemetry_data' = IF deleted THEN Remove(telemetry_data, key) ELSE telemetry_data
    /\ telemetry_history' =
          IF deleted THEN Remove(telemetry_history, key) ELSE telemetry_history
    /\ produced' = IF deleted THEN Remove(produced, key) ELSE produced
    /\ positions' = IF deleted THEN Remove(positions, key) ELSE positions
    /\ UNCHANGED <<sim, ticks, lastTick, restored, simulation, event_loop>>

\* asyncio.wait_for(process.wait(), timeout=5.0) returns: the process has exited
\* (lines 346-347, 852-853)
TermWaitReturns(t) ==
    /\ EventLoopFree
    /\ server = "up"
    /\ tasks[t].pc = "term_wait"
    /\ ~Running(tasks[t].popped)
    /\ tasks' = [tasks EXCEPT ![t].pc = "done",
                              ![t].result = IF tasks[t].kind = "delete"
                                            THEN DeleteResult(tasks[t].popped) ELSE @]
    /\ UNCHANGED <<ffmpeg_processes, process, signals, server, monitor_tasks>>
    /\ UNCHANGED monitorVars
    /\ UNCHANGED telemetryVars

\* ... or times out with the process running: kill() and wait again
\* (lines 348-350, 854-859)
TermWaitTimeout(t) ==
    /\ EventLoopFree
    /\ server = "up"
    /\ tasks[t].pc = "term_wait"
    /\ Running(tasks[t].popped)
    /\ signals' = [signals EXCEPT ![tasks[t].popped] = @ \cup {"kill"}]
    /\ tasks' = [tasks EXCEPT ![t].pc = "kill_wait"]
    /\ UNCHANGED <<ffmpeg_processes, process, server, monitor_tasks>>
    /\ UNCHANGED monitorVars
    /\ UNCHANGED telemetryVars

\* process.wait() after kill() returns (lines 350, 859)
KillWaitReturns(t) ==
    /\ EventLoopFree
    /\ server = "up"
    /\ tasks[t].pc = "kill_wait"
    /\ ~Running(tasks[t].popped)
    /\ tasks' = [tasks EXCEPT ![t].pc = "done",
                              ![t].result = IF tasks[t].kind = "delete"
                                            THEN DeleteResult(tasks[t].popped) ELSE @]
    /\ UNCHANGED <<ffmpeg_processes, process, signals, server, monitor_tasks>>
    /\ UNCHANGED monitorVars
    /\ UNCHANGED telemetryVars

(***************************************************************************)
(* monitor_ffmpeg_output, lines 753-766: the monitor task of a session     *)
(* takes a stderr line from its queue. For the first line with "frame="    *)
(* it tells the client "active" and sets is_active_sent; when that send    *)
(* raises, the task leaves its loop through line 789 with the flag unset.  *)
(* Any other line is only logged (line 757).                               *)
(* The line may have been written before the process exited: the task      *)
(* looks at p.returncode only afterwards (line 777).                       *)
(***************************************************************************)
MonitorReadsStderr(p, line, delivered) ==
    /\ EventLoopFree
    /\ server = "up"
    /\ tasks[p].kind = "ws"
    /\ monitor_tasks[p].task = "running"
    /\ monitor_tasks[p].frames < MaxFrames
    /\ LET m == monitor_tasks[p]
           read == [m EXCEPT !.frames = IF line = "frame=" THEN @ + 1 ELSE @]
       IN  monitor_tasks' = [monitor_tasks EXCEPT ![p] =
              IF IsFirstMatch(line, m.is_active_sent)
              THEN IF delivered
                   THEN [read EXCEPT !.is_active_sent = TRUE,
                                     !.active_reports = @ + 1]
                   ELSE [read EXCEPT !.task = "done"]
              ELSE read]
    /\ UNCHANGED <<ffmpeg_processes, process, signals, tasks, server>>
    /\ UNCHANGED monitorVars
    /\ UNCHANGED telemetryVars

(***************************************************************************)
(* The monitor task ends by itself once its process has exited: the        *)
(* session's at the test of line 777, the start-up publication's when      *)
(* stderr is at its end and p.wait() has returned (lines 1071-1076).       *)
(***************************************************************************)
MonitorOutputEnds(p) ==
    /\ EventLoopFree
    /\ server = "up"
    /\ monitor_tasks[p].task = "running"
    /\ process[p] = "exited"
    /\ monitor_tasks' = [monitor_tasks EXCEPT ![p].task = "done"]
    /\ UNCHANGED <<ffmpeg_processes, process, signals, tasks, server>>
    /\ UNCHANGED monitorVars
    /\ UNCHANGED telemetryVars

\* an FFmpeg process exits: end of input, an error, or a signal it obeys
ProcessExits(p) ==
    /\ process[p] = "running"
    /\ process' = [process EXCEPT ![p] = "exited"]
    /\ UNCHANGED <<ffmpeg_processes, signals, tasks, server, monitor_tasks>>
    /\ UNCHANGED monitorVars
    /\ UNCHANGED telemetryVars

(***************************************************************************)
(* main.py, shutdown_event, lines 190-203. The registry holds              *)
(* asyncio.subprocess.Process objects, which have no poll(): with an entry *)
(* in the registry line 192 raises AttributeError on the first one, before *)
(* anything is terminated or deleted. With an empty registry the loop does *)
(* not run.                                                                *)
(***************************************************************************)
ShutdownEvent ==
    /\ EventLoopFree
    /\ server = "up"
    /\ server' = IF DOMAIN ffmpeg_processes = {} THEN "stopped" ELSE "raised"
    /\ UNCHANGED <<ffmpeg_processes, process, signals, tasks, monitor_tasks>>
    /\ UNCHANGED monitorVars
    /\ UNCHANGED telemetryVars


(***************************************************************************)
(* Telemetry. Values are in hundredths of the source's units. A random     *)
(* draw is "low" or "high": the ends of the interval of random.uniform.    *)
(* One draw per tick moves all four values of every drone.                 *)
(***************************************************************************)
Draws == {"low", "high"}

Uniform(lo, hi, draw) == IF draw = "low" THEN lo ELSE hi

Max(a, b) == IF a >= b THEN a ELSE b

Min(a, b) == IF a <= b THEN a ELSE b

NoTick == [seq |-> 0, ids |-> {}, failed |-> {}]

\* web DroneTelemetrySimulator.add_drone, lines 281-290
Seed(draw) ==
    [altitude |-> Uniform(1000, 10000, draw), speed |-> Uniform(0, 1500, draw),
     battery |-> Uniform(5000, 10000, draw),
     signal_strength |-> Uniform(7000, 10000, draw)]

\* drone_telemetry.py, DroneTelemetrySimulator.add_drone, lines 35-46
LegacySeed(draw) ==
    [altitude |-> Uniform(5000, 15000, draw), speed |-> Uniform(500, 1500, draw),
     battery |-> Uniform(6000, 10000, draw),
     signal_strength |-> Uniform(7000, 10000, draw)]

\* faulty variant: the battery charges instead of draining
GenerateTelemetryCharging(d, draw) ==
    [altitude |-> Max(0, d.altitude + Uniform(-200, 200, draw)),
     speed |-> Max(0, d.speed + Uniform(-100, 100, draw)),
     battery |-> Max(0, Min(10000, d.battery + Uniform(1, 10, draw))),
     signal_strength |->
         Max(0, Min(10000, d.signal_strength + Uniform(-50, 50, draw)))]

\* web DroneTelemetrySimulator.generate_telemetry, lines 326-329
GenerateTelemetry(d, draw) ==
    [altitude |-> Max(0, d.altitude + Uniform(-200, 200, draw)),
     speed |-> Max(0, d.speed + Uniform(-100, 100, draw)),
     battery |-> Max(0, Min(10000, d.battery - Uniform(1, 10, draw))),
     signal_strength |->
         Max(0, Min(10000, d.signal_strength + Uniform(-50, 50, draw)))]

\* drone_telemetry.py, _simulation_loop, lines 124-134
Simulate(d, draw) ==
    [altitude |-> Max(5000, Min(15000, d.altitude + Uniform(-500, 500, draw))),
     speed |-> Max(500, Min(1500, d.speed + Uniform(-100, 100, draw))),
     battery |-> Max(0, Min(10000, d.battery - Uniform(10, 30, draw))),
     signal_strength |->
         Max(0, Min(10000, d.signal_strength + Uniform(-200, 200, draw)))]

\* telemetry_point = {"timestamp": ..., **data}
TelemetryPoint(now, data) ==
    [timestamp |-> now, altitude |-> data.altitude, speed |-> data.speed,
     battery |-> data.battery, signal_strength |-> data.signal_strength]

\* faulty variant: the newest samples are the ones dropped
TrimNewest(history) ==
    IF Len(history) > max_history_size
    THEN SubSeq(history, 1, max_history_size) ELSE history

\* history[-max_history_size:] when the history is longer (lines 104-105)
Trim(history) ==
    IF Len(history) > max_history_size
    THEN SubSeq(history, Len(history) - max_history_size + 1, Len(history))
    ELSE history

\* Python's seq[-limit:]: the last limit items; all of them for limit = 0 or
\* limit >= len; for a negative limit the items from index -limit on
LastItems(seq, limit) ==
    IF limit > 0
    THEN SubSeq(seq, Max(1, Len(seq) - limit + 1), Len(seq))
    ELSE SubSeq(seq, Min(Len(seq), -limit) + 1, Len(seq))

\* get_telemetry_history(drone_id, limit), both monitors
get_telemetry_history(drone_id, limit) ==
    IF drone_id \in DOMAIN telemetry_history
    THEN LastItems(telemetry_history[drone_id], limit) ELSE <<>>

Entry(map, key, default) == IF key \in DOMAIN map THEN map[key] ELSE default

(***************************************************************************)
(* web StreamMonitor.save_position_to_db (lines 231-256) is a coroutine    *)
(* without an await: SessionLocal(), session.add and session.commit are    *)
(* blocking calls made on the event loop's thread. From the first write of *)
(* a tick until the last one has returned, no other coroutine of the       *)
(* process runs.                                                           *)
(***************************************************************************)
SavePositionToDbReturns ==
    /\ event_loop = "blocked"
    /\ event_loop' = "free"
    /\ UNCHANGED <<sim, telemetry_data, telemetry_history, produced, ticks, lastTick,
                   restored, simulation, positions>>
    /\ UNCHANGED monitorVars
    /\ UNCHANGED supervisorVars

\* faulty variant: the error of a write leaves the for loop, so that the paths
\* after the first failed one are not reached
ReachedUntilError(ids, failed) ==
    {p \in ids : \A i, j \in 1..Len(PathOrder) :
                    PathOrder[j] = p /\ PathOrder[i] \in failed => j <= i}

\* web StreamMonitor._telemetry_loop, lines 93-108: the paths whose pass of the
\* for loop runs. The error of a write is caught in save_position_to_db (lines
\* 251-253), so the loop goes on to the next path.
Reached(ids, failed) == ids

(***************************************************************************)
(* web StreamMonitor._telemetry_loop, one iteration (lines 88-115). The    *)
(* simulator moves the drones of the paths in _active_streams; each new    *)
(* value becomes the path's current telemetry and is appended to its       *)
(* history, which is trimmed; then it is written to the database. failed   *)
(* are the paths whose write raises: save_position_to_db catches that,     *)
(* rolls back and returns (lines 251-253). The iteration has no suspension *)
(* point that gives up the event loop before the sleep.                    *)
(***************************************************************************)
TelemetryLoop(seed, draw, failed) ==
    /\ EventLoopFree
    /\ monitor = "web"
    /\ server = "up"
    /\ loops._is_running
    /\ ticks < MaxTicks
    /\ LET ids == DOMAIN _active_streams \cap drones
           now == ticks + 1
           data(p) == GenerateTelemetry(Entry(sim, p, Seed(seed)), draw)
           reached == Reached(ids, failed \cap ids)
       IN  /\ sim' = [p \in DOMAIN sim \cup ids |->
                         IF p \in ids THEN data(p) ELSE sim[p]]
           /\ telemetry_data' = [p \in DOMAIN telemetry_data \cup reached |->
                         IF p \in reached THEN data(p) ELSE telemetry_data[p]]
           /\ telemetry_history' = [p \in DOMAIN telemetry_history \cup reached |->
                 IF p \in reached
                 THEN Trim(Append(Entry(telemetry_history, p, <<>>),
                                  TelemetryPoint(now, data(p))))
                 ELSE telemetry_history[p]]
           /\ produced' = [p \in DOMAIN produced \cup reached |->
                 IF p \in reached
                 THEN Append(Entry(produced, p, <<>>), TelemetryPoint(now, data(p)))
                 ELSE produced[p]]
           /\ ticks' = now
           /\ lastTick' = [seq |-> now, ids |-> ids, failed |-> failed \cap ids]
           /\ restored' = restored \ ids
           /\ positions' = [p \in DOMAIN positions \cup (reached \ failed) |->
                 IF p \in reached \ failed THEN data(p) ELSE positions[p]]
           /\ event_loop' = IF Reached(ids, failed \cap ids) = {} THEN "free"
                            ELSE "blocked"
    /\ UNCHANGED simulation
    /\ UNCHANGED monitorVars
    /\ UNCHANGED supervisorVars

\* time.sleep(self._update_interval), line 146: the thread is between iterations
Sleeping == [pc |-> "sleeping", used |-> 0]

\* dict iteration (CPython): a next() of the iterator raises RuntimeError
\* ("dictionary changed size during iteration") when the dict no longer has
\* the number of entries it had when the iterator was made
ChangedSize(used) == Cardinality(drones) # used

(***************************************************************************)
(* drone_telemetry.py, _simulation_loop, lines 117-119: the while test     *)
(* passes and the for statement makes the iterator of self.drones.values().*)
(* The other threads (the poll, the request handlers) run between this     *)
(* step and the end of the iteration.                                      *)
(***************************************************************************)
SimulationLoopBegin ==
    /\ monitor = "legacy"
    /\ loops._is_running
    /\ simulation.pc = "sleeping"
    /\ ticks < MaxTicks
    /\ simulation' = [pc |-> "iterating", used |-> Cardinality(drones)]
    /\ UNCHANGED <<sim, telemetry_data, telemetry_history, produced, ticks, lastTick,
                   restored, event_loop, positions>>
    /\ UNCHANGED monitorVars
    /\ UNCHANGED supervisorVars

(***************************************************************************)
(* drone_telemetry.py, _simulation_loop, the rest of one iteration (lines  *)
(* 119-146): every drone of the simulator is moved and clamped, and the    *)
(* thread sleeps. Nothing is stored outside the simulator.                 *)
(***************************************************************************)
SimulationLoop(seed, draw) ==
    /\ monitor = "legacy"
    /\ simulation.pc = "iterating"
    /\ ~ChangedSize(simulation.used)
    /\ sim' = [p \in drones |-> Simulate(Entry(sim, p, LegacySeed(seed)), draw)]
    /\ ticks' = ticks + 1
    /\ lastTick' = [seq |-> ticks + 1, ids |-> drones, failed |-> {}]
    /\ restored' = {}
    /\ simulation' = Sleeping
    /\ UNCHANGED <<telemetry_data, telemetry_history, produced, event_loop, positions>>
    /\ UNCHANGED monitorVars
    /\ UNCHANGED supervisorVars

(***************************************************************************)
(* drone_telemetry.py, _simulation_loop, lines 117-146: the function has   *)
(* no try statement, so the RuntimeError of the for loop leaves the while  *)
(* loop and the thread ends. The drones in moved were reached before the   *)
(* error.                                                                  *)
(***************************************************************************)
SimulationLoopRaises(moved, seed, draw) ==
    /\ monitor = "legacy"
    /\ simulation.pc = "iterating"
    /\ ChangedSize(simulation.used)
    /\ moved \subseteq drones
    /\ Cardinality(moved) <= simulation.used
    /\ sim' = [p \in DOMAIN sim \cup moved |->
                  IF p \in moved
                  THEN Simulate(Entry(sim, p, LegacySeed(seed)), draw)
                  ELSE sim[p]]
    /\ restored' = restored \ moved
    /\ simulation' = [pc |-> "raised", used |-> 0]
    /\ UNCHANGED <<telemetry_data, telemetry_history, produced, ticks, lastTick,
                   event_loop, positions>>
    /\ UNCHANGED monitorVars
    /\ UNCHANGED supervisorVars

\* the last positions rows of the database: the one the add_drone endpoint
\* writes (web/api.py, lines 501-510) and one a telemetry tick has saved
PositionRows ==
    {[altitude |-> 0, speed |-> 0, battery |-> 10000, signal_strength |-> 10000],
     [altitude |-> 800, speed |-> 1600, battery |-> 4990, signal_strength |-> 6950]}

NoRow == [altitude |-> -1, speed |-> -1, battery |-> -1, signal_strength |-> -1]

(***************************************************************************)
(* legacy StreamMonitor.load_positions_from_db (lines 170-183): every      *)
(* stream with a last position in the database gets its drone (added if    *)
(* the simulator lacks it) set to the altitude, speed, battery and signal  *)
(* strength of that row. rows gives the last row of each path, or NoRow.   *)
(***************************************************************************)
LoadPositionsFromDb(rows) ==
    /\ monitor = "legacy"
    /\ LET found == {p \in DOMAIN streams : rows[p] # NoRow}
       IN  /\ found # {}
           /\ sim' = [p \in DOMAIN sim \cup found |->
                         IF p \in found THEN rows[p] ELSE sim[p]]
           /\ drones' = drones \cup found
           /\ restored' = restored \cup found
    /\ UNCHANGED <<telemetry_data, telemetry_history, produced, ticks, lastTick,
                   simulation, event_loop, positions>>
    /\ UNCHANGED <<monitor, clock, _active_streams, _stream_events, fetch, streams,
                   event_queue, lastPoll>>
    /\ UNCHANGED <<lastDrain, lastAdd, observed, loops, lastEvent>>
    /\ UNCHANGED supervisorVars

(***************************************************************************)
(* legacy StreamMonitor.add_drone (lines 120-163), as the add_drone        *)
(* endpoint calls it (web/api.py, lines 537-544). A config is the fields   *)
(* the method reads; complete says whether source_type, rtsp_url and       *)
(* status are all there.                                                   *)
(***************************************************************************)
Configs ==
    {[source_type |-> "rtmp", status |-> "active", complete |-> TRUE],
     [source_type |-> "file", status |-> "inactive", complete |-> TRUE],
     [source_type |-> "rtmp", status |-> "active", complete |-> FALSE]}

\* faulty variant: an id that is already there is not looked for
AddDroneRaisesUnchecked(drone_id, config) ==
    IF ~config.complete THEN "missing_fields" ELSE "none"

\* the ValueError that add_drone raises before it writes anything (lines 122-127)
AddDroneRaises(drone_id, config) ==
    IF drone_id \in DOMAIN streams THEN "exists"
    ELSE IF ~config.complete THEN "missing_fields"
    ELSE "none"

\* StreamInfo(...) of add_drone, lines 128-140
RegisteredStream(drone_id, config, now) ==
    [path |-> drone_id,
     source_type |-> config.source_type,
     publishers |-> IF config.source_type = "rtmp" THEN 1 ELSE 0,
     readers |-> 0,
     status |-> config.status,
     start_time |-> now,
     last_seen |-> now]

\* web/api.py, add_drone, lines 500-512: the row the endpoint writes to
\* PositionDB before it calls the monitor
InitialRow == [altitude |-> 0, speed |-> 0, battery |-> 10000, signal_strength |-> 10000]

\* The asyncio StreamMonitor has no add_drone: the endpoint's call raises
\* AttributeError, which the endpoint logs.
AddDrone(drone_id, config) ==
    /\ EventLoopFree
    /\ clock < MaxTime
    /\ clock' = clock + 1
    /\ LET raised == IF monitor = "web" THEN "no_method"
                     ELSE AddDroneRaises(drone_id, config)
       IN  /\ lastAdd' = [flip |-> ~lastAdd.flip, drone_id |-> drone_id,
                          raised |-> raised]
           /\ positions' = Put(positions, drone_id, InitialRow)
           /\ IF raised # "none"
              THEN UNCHANGED <<streams, drones, sim, event_queue, telemetry_history>>
              ELSE /\ streams' = Put(streams, drone_id,
                                     RegisteredStream(drone_id, config, clock + 1))
                   /\ drones' = drones \cup {drone_id}
                   /\ sim' = Remove(sim, drone_id)
                   /\ event_queue' = Append(event_queue, Event("stream_created", drone_id))
                   /\ telemetry_history' = Put(telemetry_history, drone_id, <<>>)
    /\ UNCHANGED <<monitor, _active_streams, _stream_events, fetch, lastPoll, lastDrain,
                   observed, loops, lastEvent>>
    /\ UNCHANGED <<telemetry_data, produced, ticks, lastTick, restored, simulation, event_loop>>
    /\ UNCHANGED supervisorVars

(***************************************************************************)
(* web StreamMonitor.stop, lines 54-74, called first by main.py's          *)
(* shutdown_event (line 188): _is_running is cleared, each of the two      *)
(* tasks is cancelled and awaited. The CancelledError reaches the monitor  *)
(* task at the await it is suspended in (a request of the poll, or the     *)
(* sleep) and passes the except Exception clauses, so a poll under way is  *)
(* abandoned; the telemetry task is suspended only in its sleep.           *)
(***************************************************************************)
Stop ==
    /\ EventLoopFree
    /\ monitor = "web"
    /\ loops._is_running
    /\ loops' = [_is_running |-> FALSE, polling |-> FALSE]
    /\ fetch' = Idle
    /\ UNCHANGED <<monitor, clock, drones, _active_streams, _stream_events, streams,
                   event_queue, lastPoll, lastDrain, lastAdd, observed, lastEvent>>
    /\ UNCHANGED supervisorVars
    /\ UNCHANGED telemetryVars

(***************************************************************************)
(* legacy StreamMonitor.stop_monitoring, lines 42-44, called by            *)
(* MediaMTXManager.stop: the stop events of the monitor and of the         *)
(* simulator are set and the call returns. Neither thread is joined.       *)
(* polling says where the monitor thread is at that moment: past the test  *)
(* of line 47 (in requests.get, say), or in its wait. The simulator thread *)
(* stays where it is.                                                      *)
(***************************************************************************)
StopMonitoring(polling) ==
    /\ monitor = "legacy"
    /\ loops._is_running
    /\ loops' = [_is_running |-> FALSE, polling |-> polling]
    /\ UNCHANGED <<monitor, clock, drones, _active_streams, _stream_events, fetch,
                   streams, event_queue, lastPoll, lastDrain, lastAdd, observed,
                   lastEvent>>
    /\ UNCHANGED supervisorVars
    /\ UNCHANGED telemetryVars

InitTelemetry ==
    /\ sim = EmptyMap
    /\ telemetry_data = EmptyMap
    /\ telemetry_history = EmptyMap
    /\ produced = EmptyMap
    /\ ticks = 0
    /\ lastTick = NoTick
    /\ restored = {}
    /\ simulation = Sleeping
    /\ event_loop = "free"
    /\ positions = EmptyMap

InitSupervisor ==
    /\ ffmpeg_processes = EmptyMap
    /\ process = [t \in Tasks |-> "none"]
    /\ signals = [t \in Tasks |-> {}]
    /\ tasks = [t \in Tasks |-> NoTask]
    /\ server = "up"
    /\ monitor_tasks = [t \in Tasks |-> NoMonitorTask]

InitMonitor ==
    /\ monitor \in {"web", "legacy"}
    /\ clock = 0
    /\ drones = {}
    /\ _active_streams = EmptyMap
    /\ _stream_events = <<>>
    /\ fetch = Idle
    /\ streams = EmptyMap
    /\ event_queue = <<>>
    /\ lastPoll = NoPoll
    /\ lastDrain = NoDrain
    /\ lastAdd = NoAdd
    /\ observed = EmptyMap
    /\ lastEvent = EmptyMap
    /\ loops = Started
    /\ InitSupervisor
    /\ InitTelemetry

NextMonitor ==
    \/ \E S \in SUBSET Paths : FetchList(S)
    \/ \E outcome \in {"transport_error", "error"} : FetchListFails(outcome)
    \/ \E info \in DetailResponses : FetchDetail(info)
    \/ GetStreamEvents
    \/ \E items \in LegacySnapshots : UpdateStreams(items)
    \/ \E outcome \in {"transport_error", "error"} : UpdateStreamsFails(outcome)
    \/ LegacyGetStreamEvents

SpecMonitor == InitMonitor /\ [][NextMonitor]_vars

\* the registry and its tasks, in the process that main.py starts
InitApi ==
    /\ InitSupervisor
    /\ InitTelemetry
    /\ monitor = "web"
    /\ clock = 0
    /\ drones = {}
    /\ _active_streams = EmptyMap
    /\ _stream_events = <<>>
    /\ fetch = Idle
    /\ streams = EmptyMap
    /\ event_queue = <<>>
    /\ lastPoll = NoPoll
    /\ lastDrain = NoDrain
    /\ lastAdd = NoAdd
    /\ observed = EmptyMap
    /\ lastEvent = EmptyMap
    /\ loops = Started

NextApi ==
    \/ \E t \in Tasks, key \in Paths, source \in SourceSpecs \ {"camera"} :
          StartBegin(t, "ws", key, source)
    \/ \E t \in Tasks, source \in SourceSpecs \ {"camera"} :
          StartBegin(t, "publication", "drone-1", source)
    \/ \E t \in Tasks, spawned \in BOOLEAN : StartSpawned(t, spawned)
    \/ \E t \in Tasks, delivered \in BOOLEAN : SendPending(t, delivered)
    \/ \E t \in Tasks : WaitReturns(t)
    \/ \E t \in Tasks : Cleanup(t)
    \/ \E t \in Tasks, key \in Paths, deleted \in BOOLEAN : DeleteStream(t, key, deleted)
    \/ \E t \in Tasks : TermWaitReturns(t)
    \/ \E t \in Tasks : TermWaitTimeout(t)
    \/ \E t \in Tasks : KillWaitReturns(t)
    \/ \E p \in Tasks : ProcessExits(p)
    \/ ShutdownEvent

SpecApi == InitApi /\ [][NextApi]_vars

\* the output-monitor tasks next to the sessions and the stops of one path
NextOutput ==
    \/ \E t \in Tasks, kind \in {"ws", "publication"} :
          StartBegin(t, kind, "drone-1", "file")
    \/ \E t \in Tasks : StartSpawned(t, TRUE)
    \/ \E t \in Tasks : SendPending(t, TRUE)
    \/ \E t \in Tasks : WaitReturns(t)
    \/ \E t \in Tasks : Cleanup(t)
    \/ \E t \in Tasks : DeleteStream(t, "drone-1", TRUE)
    \/ \E t \in Tasks : TermWaitReturns(t)
    \/ \E t \in Tasks : TermWaitTimeout(t)
    \/ \E t \in Tasks : KillWaitReturns(t)
    \/ \E p \in Tasks : ProcessExits(p)
    \/ \E p \in Tasks, line \in StderrLines, delivered \in BOOLEAN :
          MonitorReadsStderr(p, line, delivered)
    \/ \E p \in Tasks : MonitorOutputEnds(p)

SpecOutput == InitApi /\ [][NextOutput]_vars

\* the telemetry loops, with the polls that tell them which paths there are
PublishedInfo == [kind |-> "ok", state |-> "ready", source |-> "obj",
                  publishers |-> 1, readers |-> 0]

NextTelemetry ==
    \/ \E draw \in Draws, failed \in {{}, {"drone-1"}} :
          TelemetryLoop(draw, draw, failed)
    \/ SavePositionToDbReturns
    \/ SimulationLoopBegin
    \/ \E draw \in Draws : SimulationLoop(draw, draw)
    \/ \E moved \in SUBSET Paths, draw \in Draws : SimulationLoopRaises(moved, draw, draw)
    \/ \E S \in {Paths, {"drone-1"}} : FetchList(S)
    \/ FetchDetail(PublishedInfo)
    \/ GetStreamEvents
    \/ \E S \in {Paths, {"drone-1"}} :
          UpdateStreams([p \in Paths |-> IF p \in S THEN PublishedInfo ELSE Absent])
    \/ LegacyGetStreamEvents
    \/ DeleteStream(1, "drone-1", TRUE)
    \/ \E row \in PositionRows :
          LoadPositionsFromDb([p \in Paths |-> IF p = "drone-1" THEN row ELSE NoRow])

SpecTelemetry == InitMonitor /\ [][NextTelemetry]_vars

\* the event queue: polls publish, the events endpoint drains
UnpublishedInfo == [kind |-> "ok", state |-> "notReady", source |-> "obj",
                    publishers |-> 0, readers |-> 0]

NextEvents ==
    \/ \E S \in SUBSET Paths : FetchList(S)
    \/ \E info \in {PublishedInfo, UnpublishedInfo, DetailFailed} : FetchDetail(info)
    \/ \E outcome \in {"transport_error", "error"} : FetchListFails(outcome)
    \/ \E items \in [Paths -> {PublishedInfo, UnpublishedInfo, Absent}] :
          UpdateStreams(items)
    \/ GetEvents

SpecEvents == InitMonitor /\ [][NextEvents]_vars

\* registration of drones next to the legacy poll and simulator
NextRegister ==
    \/ \E drone_id \in Paths, config \in Configs : AddDrone(drone_id, config)
    \/ \E S \in {Paths, {"drone-1"}} :
          UpdateStreams([p \in Paths |-> IF p \in S THEN PublishedInfo ELSE Absent])
    \/ SimulationLoopBegin
    \/ SimulationLoop("low", "low")
    \/ \E moved \in SUBSET Paths : SimulationLoopRaises(moved, "low", "low")
    \/ GetEvents

SpecRegister == InitMonitor /\ [][NextRegister]_vars

\* the two periodic loops of each monitor and the stop of the system
NextStop ==
    \/ \E S \in {Paths, {"drone-1"}} : FetchList(S)
    \/ FetchListFails("transport_error")
    \/ \E info \in {PublishedInfo, UnpublishedInfo} : FetchDetail(info)
    \/ \E draw \in Draws : TelemetryLoop(draw, draw, {})
    \/ SavePositionToDbReturns
    \/ Stop
    \/ \E items \in [Paths -> {PublishedInfo, Absent}] : UpdateStreams(items)
    \/ UpdateStreamsFails("transport_error")
    \/ SimulationLoopBegin
    \/ \E draw \in Draws : SimulationLoop(draw, draw)
    \/ \E polling \in BOOLEAN : StopMonitoring(polling)

SpecStop == InitMonitor /\ [][NextStop]_vars

\* a drone with a row in PositionDB enters the simulator and is moved
NextRestore ==
    \/ \E config \in Configs : AddDrone("drone-1", config)
    \/ \E S \in {Paths, {"drone-1"}} : FetchList(S)
    \/ FetchDetail(PublishedInfo)
    \/ \E seed \in Draws, draw \in Draws : TelemetryLoop(seed, draw, {})
    \/ SavePositionToDbReturns
    \/ SimulationLoopBegin
    \/ \E seed \in Draws, draw \in Draws : SimulationLoop(seed, draw)

SpecRestore == InitMonitor /\ [][NextRestore]_vars

\* the deletion of a stream next to the poll and the telemetry loop of the
\* asyncio monitor
NextDelete ==
    \/ FetchList({"drone-1"})
    \/ FetchDetail(PublishedInfo)
    \/ GetStreamEvents
    \/ \E draw \in Draws : TelemetryLoop(draw, draw, {})
    \/ SavePositionToDbReturns
    \/ \E t \in Tasks : StartBegin(t, "publication", "drone-1", "file")
    \/ \E t \in Tasks : StartSpawned(t, TRUE)
    \/ \E t \in Tasks : DeleteStream(t, "drone-1", TRUE)
    \/ \E t \in Tasks : TermWaitReturns(t)
    \/ \E t \in Tasks : TermWaitTimeout(t)
    \/ \E t \in Tasks : KillWaitReturns(t)
    \/ \E p \in Tasks : ProcessExits(p)

SpecDelete == InitApi /\ [][NextDelete]_vars

(***************************************************************************)
(* Properties of the reconciler.                                           *)
(***************************************************************************)
\* the step in which a poll completes (its record replaces the last one)
PollCompletes == lastPoll'.seq # lastPoll.seq

Count(seq, e) == Cardinality({i \in DOMAIN seq : seq[i] = e})

\* a path-state map without its last_seen times
Frozen(map) == [p \in DOMAIN map |-> [map[p] EXCEPT !.last_seen = NoTime]]

\* C1: after every successful poll, every path in the path-state map has status
\* active if and only if the publisher count that poll recorded for it is > 0.
C1_ActiveIffPublishers ==
    lastPoll.outcome = "ok" =>
        \A p \in DOMAIN ActiveStreams :
            (ActiveStreams[p].status = "active") <=> (ActiveStreams[p].publishers > 0)

\* C2: a poll that fails with a transport error leaves the path-state map exactly
\* as it was, so get_active_streams answers as before the poll.
C2_TransportErrorKeepsMap ==
    [][(PollCompletes /\ lastPoll'.outcome = "transport_error")
          => ActiveStreams' = ActiveStreams]_monitorVars

\* C3: a poll that gets the same answers from the relay as the poll before it emits
\* no lifecycle event and leaves the path-state map unchanged: the same paths with
\* the same status, publishers, readers and start_time; only last_seen may differ.
C3_RepeatedPollChangesNothing ==
    [][(PollCompletes /\ lastPoll'.repeat)
          => /\ lastPoll'.emitted = <<>>
             /\ Frozen(ActiveStreams)' = Frozen(ActiveStreams)]_monitorVars

\* C3 witness: a second poll has seen what the first one saw, and the map holds an
\* active path whose start_time is older than the poll.
C3_Witness ==
    /\ lastPoll.repeat
    /\ lastPoll.outcome = "ok"
    /\ \E p \in DOMAIN ActiveStreams :
          /\ ActiveStreams[p].status = "active"
          /\ ActiveStreams[p].last_seen = lastPoll.seq
          /\ ActiveStreams[p].start_time # NoTime
          /\ ActiveStreams[p].start_time < lastPoll.seq

\* the publisher count the monitor in use records for a path
PublisherCount(info) == IF monitor = "web" THEN info.publishers ELSE Publishers(info)

\* the relay reports the path as published: it has a source and, where the monitor
\* reads the state (web), the state is ready
Published(info) ==
    /\ info.kind = "ok"
    /\ info.source = "obj"
    /\ monitor = "web" => info.state = "ready"

StartTasks == {t \in Tasks : tasks[t].kind \in {"ws", "publication"}}

\* C5: the registry never replaces the entry of a process that is still running
\* by another process: while the registered encoder of a path runs, a start for
\* that path fails and leaves the entry as it is.
C5_NoSilentReplace ==
    [][\A k \in DOMAIN ffmpeg_processes :
          (Running(ffmpeg_processes[k]) /\ k \in DOMAIN ffmpeg_processes')
              => ffmpeg_processes'[k] = ffmpeg_processes[k]]_vars

\* C6: of two starts for the same path that were both called while the path had
\* no entry and that overlapped, at most one spawns a process.
C6_OneStartWins ==
    \A t \in StartTasks, u \in StartTasks :
        (/\ u \in tasks[t].rivals
         /\ tasks[t].key = tasks[u].key
         /\ tasks[t].unregistered /\ tasks[u].unregistered)
            => ~(process[t] # "none" /\ process[u] # "none")

\* every request and start-up task has run to its end
Quiescent == \A t \in Tasks : tasks[t].pc \in {"idle", "done"}

\* C7: once shutdown has returned, with no request in flight, no process that was
\* ever started is running.
C7_NoOrphanAfterShutdown ==
    (server = "stopped" /\ Quiescent) => \A p \in Tasks : process[p] # "running"

\* C8: once the shutdown handler has ended it has returned normally and the
\* registry is empty, whatever the registry held.
C8_StopAllEmptiesRegistry ==
    server # "up" => (server = "stopped" /\ DOMAIN ffmpeg_processes = {})

\* C9: when a stop of a path (delete_stream's, or a session's cleanup) has
\* returned after removing the entry that a start registered, and no start has
\* registered the path again, the path has no entry and the process of that entry
\* is not running.
C9_StartThenStop ==
    \A t \in Tasks :
        (/\ tasks[t].pc = "done" /\ tasks[t].stopped
         /\ tasks[t].popped # NoProcess
         /\ ~tasks[t].restarted)
            => /\ tasks[t].key \notin DOMAIN ffmpeg_processes
               /\ ~Running(tasks[t].popped)

\* C10: a stop of a path that has no entry (delete_stream reaching its stop, or
\* a session's cleanup) ends at once, delete_stream with success, sends no
\* signal and leaves the registry as it is.
C10_StopWithoutEntry ==
    [][\A t \in Tasks :
          /\ (/\ tasks[t].kind = "none" /\ tasks'[t].kind = "delete"
              /\ tasks'[t].stopped
              /\ tasks'[t].key \notin DOMAIN ffmpeg_processes)
                 => /\ tasks'[t].pc = "done" /\ tasks'[t].result = "ok"
                    /\ signals' = signals /\ process' = process
                    /\ ffmpeg_processes' = ffmpeg_processes
          /\ (/\ tasks[t].pc = "cleanup" /\ tasks'[t].pc # "cleanup"
              /\ tasks[t].key \notin DOMAIN ffmpeg_processes)
                 => /\ tasks'[t].pc = "done"
                    /\ signals' = signals /\ process' = process
                    /\ ffmpeg_processes' = ffmpeg_processes]_vars

\* a delete_stream has stopped a path without entry while another path's
\* registered process runs
C10_Witness ==
    \E t \in Tasks :
        /\ tasks[t].kind = "delete" /\ tasks[t].pc = "done" /\ tasks[t].stopped
        /\ tasks[t].popped = NoProcess /\ tasks[t].result = "ok"
        /\ \E k \in DOMAIN ffmpeg_processes :
              k # tasks[t].key /\ Running(ffmpeg_processes[k])

\* C11: a start whose source is a file that does not exist ends at once without
\* success: no process is spawned and the registry is left as it was.
C11_MissingFileRejected ==
    [][\A t \in Tasks :
          (/\ tasks[t].kind = "none"
           /\ tasks'[t].kind \in {"ws", "publication"}
           /\ tasks'[t].source = "missing_file")
              => /\ tasks'[t].pc = "done" /\ tasks'[t].result = "error"
                 /\ process' = process
                 /\ ffmpeg_processes' = ffmpeg_processes]_vars

\* a start has been refused a missing file while another key's
\* process stays registered and running
C11_Witness ==
    /\ \E t \in Tasks :
          /\ tasks[t].source = "missing_file" /\ tasks[t].pc = "done"
          /\ process[t] = "none"
          /\ tasks[t].key \notin DOMAIN ffmpeg_processes
    /\ \E k \in DOMAIN ffmpeg_processes : Running(ffmpeg_processes[k])

InRanges(d) ==
    /\ d.altitude >= 5000 /\ d.altitude <= 15000
    /\ d.speed >= 500 /\ d.speed <= 1500
    /\ d.battery >= 0 /\ d.battery <= 10000
    /\ d.signal_strength >= 0 /\ d.signal_strength <= 10000

\* C13: after every tick the values of every drone the tick moved lie in
\* altitude [50,150], speed [5,15], battery [0,100], signal strength [0,100].
C13_ClampsAfterTick ==
    [][ticks' # ticks => \A p \in lastTick'.ids : InRanges(sim'[p])]_vars

\* C14: a tick never raises the battery of a drone above its value after the
\* drone's previous tick, unless the value was seeded anew or loaded from the
\* database in between.
C14_BatteryNeverRises ==
    [][ticks' # ticks =>
          \A p \in (lastTick'.ids \cap DOMAIN sim) \ restored :
              sim'[p].battery <= sim[p].battery]_vars

\* a path has had two ticks in a row and its battery went down
C14_Witness ==
    /\ lastTick.seq >= 2
    /\ \E p \in lastTick.ids \cap DOMAIN produced :
          LET n == Len(produced[p])
          IN  /\ n >= 2
              /\ produced[p][n].timestamp = lastTick.seq
              /\ produced[p][n].battery < produced[p][n - 1].battery

(***************************************************************************)
(* Properties of the event queue (SpecEvents)                              *)
(***************************************************************************)
IsPrefix(s, t) == Len(s) <= Len(t) /\ SubSeq(t, 1, Len(s)) = s

\* C15: a request for the events is answered with the whole queue, in the order
\* of publication, and leaves the queue empty; every other step only appends to
\* the queue. So each event is handed out by exactly one request, and a request
\* right after another is answered with the empty list.
C15_DrainAll ==
    [][/\ lastDrain' # lastDrain =>
             /\ lastDrain'.events = StreamEventQueue
             /\ StreamEventQueue' = <<>>
       /\ lastDrain' = lastDrain => IsPrefix(StreamEventQueue, StreamEventQueue')
       /\ (lastDrain' # lastDrain /\ StreamEventQueue = <<>>) =>
             lastDrain'.events = <<>>]_vars

\* a request was answered with two events; and a request found the queue empty
C15_Witness ==
    /\ Len(lastDrain.events) >= 2
    /\ StreamEventQueue = <<>>
    /\ lastDrain.events[1] # lastDrain.events[2]

(***************************************************************************)
(* Properties of the registration (SpecRegister)                           *)
(***************************************************************************)
\* C16: add_drone for an id that is already in the path-state map ends with an
\* error and changes neither the path states, nor the simulator, nor the
\* event queue, nor the histories.
C16_DuplicateRejected ==
    [][(lastAdd' # lastAdd /\ lastAdd'.drone_id \in DOMAIN ActiveStreams) =>
          /\ lastAdd'.raised # "none"
          /\ ActiveStreams' = ActiveStreams
          /\ sim' = sim /\ drones' = drones
          /\ StreamEventQueue' = StreamEventQueue
          /\ telemetry_history' = telemetry_history]_vars

\* the legacy monitor has refused an id whose drone the simulator has moved,
\* with events waiting in the queue
C16_Witness ==
    /\ monitor = "legacy"
    /\ lastAdd.raised = "exists"
    /\ lastAdd.drone_id \in DOMAIN streams \cap DOMAIN sim
    /\ event_queue # <<>>

(***************************************************************************)
(* Properties of the loops (SpecRegister)                                  *)
(***************************************************************************)

\* C17: an iteration of the reconciler loop or of the telemetry loop that
\* raises an error never ends the loop: the telemetry thread is never left
\* by an error, so that it always comes back to its next iteration.
C17_LoopSurvivesError == simulation.pc # "raised"

(***************************************************************************)
(* Properties of the database write (SpecTelemetry)                        *)
(***************************************************************************)

\* the path's current telemetry and the last sample of its history are the
\* ones the tick with number seq made for it
HasSampleOf(p, seq, data, current, history) ==
    /\ p \in DOMAIN current
    /\ current[p] = data
    /\ p \in DOMAIN history
    /\ history[p] # <<>>
    /\ history[p][Len(history[p])] = TelemetryPoint(seq, data)

\* C18: after a tick in which the database write of some path's sample failed,
\* that path and every other path of the tick have the tick's sample as their
\* current telemetry and as the last sample of their history.
C18_WriteFailureKeepsSamples ==
    [][ticks' # ticks /\ lastTick'.failed # {} =>
          \A p \in lastTick'.ids :
              HasSampleOf(p, ticks', sim'[p], telemetry_data', telemetry_history')]_vars

\* a tick over both paths in which the write of the first one failed has left
\* its samples for both
C18_Witness ==
    /\ monitor = "web"
    /\ lastTick.seq = ticks
    /\ lastTick.ids = Paths
    /\ lastTick.failed = {"drone-1"}
    /\ \A p \in Paths :
          HasSampleOf(p, ticks, sim[p], telemetry_data, telemetry_history)

(***************************************************************************)
(* Properties of the start time and of the ended event (SpecMonitor)       *)
(***************************************************************************)

\* C19: a poll that sees a stored inactive path as active emits one started
\* event and sets the start time if it was unset, so that every path whose
\* status is active has a start time.
C19_ActiveHasStartTime ==
    \A p \in DOMAIN ActiveStreams :
        ActiveStreams[p].status = "active" => ActiveStreams[p].start_time # NoTime

\* the events that a step appends to the queue of the monitor in use
Appended ==
    SubSeq(StreamEventQueue', Len(StreamEventQueue) + 1, Len(StreamEventQueue'))

\* C20: a poll that observes as inactive a path whose last observation
\* without an error was active emits exactly one ended event for the path,
\* also when polls or detail requests for the path have failed in between.
C20_EndedAfterActive ==
    [][\A p \in DOMAIN observed :
          observed[p] = "active" /\ observed'[p] = "inactive" =>
              Cardinality({i \in 1..Len(Appended) :
                              Appended[i] = Event("stream_ended", p)}) = 1]_vars

\* the number of events of a type for a path among the ones a step appends
Emits(type, p) ==
    Cardinality({i \in 1..Len(Appended) : Appended[i] = Event(type, p)})

\* C21: a poll that observes as active a path whose last observation was
\* inactive emits a started event and no restarted event for the path.
C21_StartedNotRestarted ==
    [][\A p \in DOMAIN observed :
          observed[p] = "inactive" /\ observed'[p] = "active" =>
              Emits("stream_started", p) = 1 /\ Emits("stream_restarted", p) = 0]_vars

\* the answer for a path made its part of the poll raise
UpdateFailed(info) ==
    IF monitor = "web" THEN DetailRaises(info) ELSE info.kind = "error"

\* C22: a poll in which the request or the data of one path fails skips only
\* that path: the path keeps the state it had in the map before the poll.
C22_FailedPathKeepsState ==
    [][lastPoll'.seq # lastPoll.seq =>
          \A p \in DOMAIN ActiveStreams :
              UpdateFailed(lastPoll'.snap[p]) =>
                  p \in DOMAIN ActiveStreams' /\ ActiveStreams'[p] = ActiveStreams[p]]_vars

\* C23: a path of the map that the list of a successful poll no longer
\* contains stays in the map with its status unchanged.
C23_VanishedPathStays ==
    [][\A p \in DOMAIN ActiveStreams :
          (/\ PollCompletes
           /\ lastPoll'.outcome = "ok"
           /\ lastPoll'.snap[p].kind = "absent")
          => /\ p \in DOMAIN ActiveStreams'
             /\ ActiveStreams'[p].status = ActiveStreams[p].status]_vars

\* C24: the start time of a path, once set, is never cleared and never goes
\* back: after any step the path is still in the map with a start time that
\* is not before the one it had.
C24_StartTimeKept ==
    [][\A p \in DOMAIN ActiveStreams :
          ActiveStreams[p].start_time # NoTime
          => /\ p \in DOMAIN ActiveStreams'
             /\ ActiveStreams'[p].start_time # NoTime
             /\ ActiveStreams'[p].start_time >= ActiveStreams[p].start_time]_vars

\* the status that a lifecycle event announces
Announced(type) == IF type = "stream_ended" THEN "inactive" ELSE "active"

\* C25: a reader that runs in the middle of a poll never finds an event of
\* that poll in the queue while get_active_streams still shows the path as
\* it was before: the map shows every path with the status that the events
\* the poll has emitted so far announce.
C25_EventWithState ==
    \A i \in 1..Len(fetch.emitted) :
        LET event == fetch.emitted[i]
        IN  /\ event.path \in DOMAIN _active_streams
            /\ _active_streams[event.path].status = Announced(event.type)

(***************************************************************************)
(* Properties of the two loops side by side (SpecTelemetry)                *)
(***************************************************************************)

\* C26: the telemetry loop never keeps the reconciler loop from going on: a
\* poll that waits for the relay's answer about a path can always take that
\* answer.
C26_PollCanProceed ==
    (monitor = "web" /\ fetch.pc = "detail") => ENABLED FetchDetail(PublishedInfo)

\* C27: every telemetry tick appends exactly one sample to the history of
\* every path that has a telemetry model, whatever the last poll has done.
C27_SampleForEveryModel ==
    [][(monitor = "web" /\ ticks' # ticks) =>
          \A p \in drones :
              /\ p \in DOMAIN produced'
              /\ Len(produced'[p]) = Len(Entry(produced, p, <<>>)) + 1]_vars

(***************************************************************************)
(* Properties of a stop (SpecApi)                                          *)
(***************************************************************************)

\* C28: a stop removes the entry before it sends the terminate signal, waits
\* for the process, kills it exactly when the wait has timed out, and in
\* every case the process of the entry it removed has exited when the stop
\* returns.
C28_StopSequence ==
    [][\A t \in Tasks :
          /\ \A p \in Tasks :
                ("terminate" \in signals'[p] \ signals[p] /\ tasks'[t].popped = p)
                   => \A k \in DOMAIN ffmpeg_processes' : ffmpeg_processes'[k] # p
          /\ (/\ tasks'[t].popped # NoProcess
              /\ "kill" \in signals'[tasks'[t].popped] \ signals[tasks'[t].popped])
                 => tasks[t].pc = "term_wait" /\ Running(tasks[t].popped)
          /\ (/\ tasks[t].pc # "done" /\ tasks'[t].pc = "done"
              /\ tasks'[t].stopped
              /\ tasks'[t].popped # NoProcess)
                 => process'[tasks'[t].popped] = "exited"]_vars

(***************************************************************************)
(* Properties of the output-monitor tasks (SpecOutput)                     *)
(***************************************************************************)

\* C29: when a stop returns, the output-monitor task of the process whose
\* entry it removed is no longer running.
C29_MonitorFinishedAtStop ==
    [][\A t \in Tasks :
          (/\ tasks[t].pc # "done" /\ tasks'[t].pc = "done"
           /\ tasks'[t].stopped
           /\ tasks'[t].popped # NoProcess)
              => monitor_tasks'[tasks'[t].popped].task # "running"]_vars

\* C30: once a session has told its client that the encoder has ended
\* ("completed" or "error"), the client is never told "active" for it.
C30_FinalIsFinal ==
    [][\A p \in Tasks :
          monitor_tasks[p].final_sent
             => monitor_tasks'[p].is_active_sent = monitor_tasks[p].is_active_sent]_vars

\* C31: a session tells its client "active" only after its monitor task has
\* taken a line with "frame=" from the process's stderr, and at most once for
\* each process, however many such lines follow.
C31_ActiveOnceAfterMarker ==
    \A p \in Tasks :
        /\ monitor_tasks[p].active_reports <= 1
        /\ monitor_tasks[p].active_reports >= 1 => monitor_tasks[p].frames >= 1

\* two lines with "frame=" have been read and the client was told once
C31_Witness ==
    \E p \in Tasks :
        /\ monitor_tasks[p].frames = 2
        /\ monitor_tasks[p].active_reports = 1

\* what the two periodic loops write
LoopState == <<clock, ActiveStreams, drones, lastPoll, ticks, sim, telemetry_data,
               telemetry_history>>

\* C32: once the stop of the system has returned, no poll and no telemetry
\* tick is executed: the path-state map, the telemetry and its history stay
\* as they are and no event is added to the queue.
C32_LoopsEndWithStop ==
    [][~loops._is_running =>
          /\ LoopState' = LoopState
          /\ Len(StreamEventQueue') <= Len(StreamEventQueue)]_vars

\* the same for the monitor of web/stream_monitor.py alone
C32_WebLoopsEndWithStop ==
    [][(monitor = "web" /\ ~loops._is_running) =>
          /\ LoopState' = LoopState
          /\ Len(StreamEventQueue') <= Len(StreamEventQueue)]_vars

\* the web monitor was stopped in the middle of a poll and after a tick
C32_WebWitness ==
    /\ monitor = "web"
    /\ ~loops._is_running
    /\ ticks >= 1
    /\ clock > lastPoll.seq

\* one tick of the simulator of the monitor in use
Moved(d, draw) == IF monitor = "web" THEN GenerateTelemetry(d, draw) ELSE Simulate(d, draw)

\* C33: a drone that is added while PositionDB holds a last row for its id
\* starts from the altitude, speed, battery and signal strength of that row:
\* the first tick that reads the new drone moves it from those values.
C33_SeededFromLastSample ==
    [][\A p \in DOMAIN sim' \cap DOMAIN positions :
          p \notin DOMAIN sim => \E draw \in Draws : sim'[p] = Moved(positions[p], draw)]_vars

\* C34: the started and ended events of a path alternate: whatever polls and
\* detail requests fail in between, a poll emits a started event for a path
\* only if the latest started or ended event of the path is not a started one.
C34_StartedEndedAlternate ==
    [][\A p \in Paths :
          Emits("stream_started", p) > 0 =>
              /\ Emits("stream_started", p) = 1
              /\ Entry(lastEvent, p, "none") # "stream_started"]_vars

\* the same for the monitor of stream_monitor.py alone
C34_LegacyAlternate ==
    [][monitor = "legacy" =>
          \A p \in Paths :
              Emits("stream_started", p) > 0 =>
                  /\ Emits("stream_started", p) = 1
                  /\ Entry(lastEvent, p, "none") # "stream_started"]_vars

\* C35: the cleanup of a session removes from the registry only the entry of
\* the process that the session started, sends a signal to no other process,
\* and does not end while its own process runs with no stop under way for it.
C35_CleanupOwnProcess ==
    [][\A t \in Tasks :
          (tasks[t].kind = "ws" /\ tasks[t].pc = "cleanup" /\ tasks'[t].pc # "cleanup")
             => /\ \A k \in DOMAIN ffmpeg_processes \ DOMAIN ffmpeg_processes' :
                      ffmpeg_processes[k] = t
                /\ \A p \in Tasks \ {t} : signals'[p] = signals[p]
                /\ tasks'[t].pc = "done" =>
                      process'[t] # "running" \/ signals'[t] # {}]_vars

\* the min(limit, length) most recent items of a sequence, in order
MostRecent(seq, limit) == SubSeq(seq, Len(seq) - Min(limit, Len(seq)) + 1, Len(seq))

\* C36: for every limit >= 0, get_telemetry_history returns the min(limit,
\* length) most recent samples of the path in order, so never more than limit
\* of them: nothing for limit = 0, and nothing for a path without a history.
C36_HistoryLimit ==
    \A p \in Paths, limit \in 0..(max_history_size + 1) :
        LET got == get_telemetry_history(p, limit)
        IN  /\ Len(got) <= limit
            /\ got = MostRecent(Entry(telemetry_history, p, <<>>), limit)

\* the same for the limits from 1 on
C36_PositiveLimit ==
    \A p \in Paths, limit \in 1..(max_history_size + 1) :
        LET got == get_telemetry_history(p, limit)
        IN  /\ Len(got) <= limit
            /\ got = MostRecent(Entry(telemetry_history, p, <<>>), limit)

\* the step in which the delete_stream call of task t returns with success
DeleteReturns(t) ==
    /\ tasks[t].pc # "done"
    /\ tasks'[t].kind = "delete" /\ tasks'[t].pc = "done" /\ tasks'[t].result = "ok"

\* C37: when delete_stream returns with success, the current telemetry, the
\* telemetry history and the registry hold no entry for its key, however the
\* telemetry loop and the polls interleave with it.
C37_DeletedKeyGone ==
    [][\A t \in Tasks :
          DeleteReturns(t) =>
              /\ tasks'[t].key \notin DOMAIN telemetry_data'
              /\ tasks'[t].key \notin DOMAIN telemetry_history'
              /\ tasks'[t].key \notin DOMAIN ffmpeg_processes']_vars

\* the same for a deletion that finds no running process under its key
C37_GoneWithoutProcess ==
    [][\A t \in Tasks :
          (DeleteReturns(t) /\ tasks[t].kind = "none") =>
              /\ tasks'[t].key \notin DOMAIN telemetry_data'
              /\ tasks'[t].key \notin DOMAIN telemetry_history'
              /\ tasks'[t].key \notin DOMAIN ffmpeg_processes']_vars

====
